---- MODULE Spec2Model ----
(***************************************************************************)
(* Model of the Videochiller streaming pipeline.                           *)
(*                                                                         *)
(*   main.py            download_video (HTTP handler) returns a            *)
(*                      StreamingResponse whose body is the async          *)
(*                      generator stream_video_content; the generator      *)
(*                      starts ytdl_pipe_merge.py, forwards its stdout in  *)
(*                      8 KiB reads and tears the process down.            *)
(*   ytdl_pipe_merge.py download_video starts yt-dlp (video), yt-dlp       *)
(*                      (audio) and ffmpeg, relays ffmpeg's stdout to its  *)
(*                      own stdout in 4096-byte reads and reaps the three  *)
(*                      processes.                                         *)
(*                                                                         *)
(* Bytes are numbered 1, 2, ... in the order ffmpeg produces them, so a    *)
(* lost, repeated or reordered byte is visible in the response.  Sizes are *)
(* counted in units of 2 KiB.                                              *)
(***************************************************************************)
EXTENDS Integers, Sequences, FiniteSets, TLC

\* ----------------------------------------------------------------- bounds
\* Number of 2 KiB units ffmpeg may produce in one run.
MaxBytes == 3

\* ------------------------------------------------------ program constants
\* chunk_size = 8 * 1024 in stream_video_content, in 2 KiB units.
ChunkSize == 4
\* ffmpeg_process.stdout.read(4096) in the merge script, in 2 KiB units.
RelayChunkSize == 2

\* ------------------------------------------------------------- vocabulary
Script == "script"
Video == "video"
Audio == "audio"
Ffmpeg == "ffmpeg"
Children == {Video, Audio, Ffmpeg}
Procs == {Script} \cup Children

\* Exceptions (subclasses of Exception) that a read or a forward may raise.
Excs == {"E1", "E2"}

\* delete_log_after_delay(download_id, 2): the delay in seconds.
DeleteDelay == 2

\* download_id values; the empty string is the falsy id the helpers ignore.
LogIds == {"a", "b"}
EmptyId == ""

\* download_actions_log.get(download_id) is None
Absent == "absent"
\* f"Fetching video info for: {url}"
FetchingStatus == "fetching"
\* f"Starting video stream for '{original_filename}' (as MKV)..."
StartingStatus == "starting"

\* Longest stderr text of yt-dlp --dump-json that is tried.
MaxErrLen == 2
\* Bytes of that text: a letter, a blank, and a byte that is not valid UTF-8.
ErrChars == {"E", " ", "x"}
ErrTexts == UNION {[1..n -> ErrChars] : n \in 0..MaxErrLen}

\* Longest metadata title that is tried, and the characters titles are made
\* of: a letter, a blank, and every character the handler replaces.
MaxTitleLen == 2
TitleChars == {"a", " ", "/", "\\", ":", "*", "?", "\"", "<", ">", "|", "'"}
\* My/Video:"Test"
ExampleTitle ==
    <<"M", "y", "/", "V", "i", "d", "e", "o", ":", "\"", "T", "e", "s", "t", "\"">>
\* The metadata has no title: info.get('title', 'video') gives 'video'.
NoTitle == <<"no title">>
Titles ==
    UNION {[1..n -> TitleChars] : n \in 0..MaxTitleLen} \cup {ExampleTitle, NoTitle}

\* Form fields a client may send: url, download_id, and a container field
\* ("none" when the field is not sent).
\* A url is the sequence of its parts: empty, with an http:// or https://
\* scheme, or a host and path without a scheme.
ValidUrl == <<"http://", "host/v">>
Urls == {<<>>, ValidUrl, <<"https://", "host/v">>, <<"host/v">>}
\* What YT_DLP_COOKIE_FILE_STREAM may hold.
CookieFiles == {"none", "cookies.txt"}
Containers == {"none", "mkv", "webm", "flac"}

\* Requests the action log sees in one run.
MaxRequests == 2
Reqs == 1..MaxRequests

VARIABLES
    \* --- operating-system processes
    st,           \* st[p]  : "none" (never started) | "running" | "exited"
    rc,           \* rc[p]  : "None" while not exited, else "0" | "1" | "-15" | "-9"
    sig,          \* sig[p] : signal sent and not yet acted on: "none" | "TERM" | "KILL"
    \* --- ytdl_pipe_merge.py download_video
    spc,          \* position of the merge script
    clProc,       \* process the finally block of the script is dealing with
    parentFds,    \* fetch stdout descriptors the script still holds open
    ffmpegFds,    \* fetch stdout descriptors ffmpeg inherited through pass_fds
    ffStdoutOpen, \* the script's read end of ffmpeg's stdout is open
    relayBuf,     \* chunk read from ffmpeg and not yet written
    stdoutBuf,    \* bytes left in sys.stdout.buffer by a flush that raised
    ffmpegFormat, \* the -f argument ffmpeg was started with
    sysExit,      \* a SystemExit raised by sys.exit(1) is propagating
    \* --- pipes
    produced,     \* number of units ffmpeg has written so far
    ffOut,        \* ffmpeg stdout pipe (ffmpeg -> script)
    scriptOut,    \* script stdout pipe (script -> stream_video_content)
    \* --- main.py
    cpc,          \* position of download_video / stream_video_content
    chunk,        \* chunk read and being yielded
    response,     \* bytes handed to the HTTP response body so far
    respStatus,   \* status of the response the handler returned: "none" | "200"
    pendingExc,   \* exception being handled in stream_video_content
    raised,       \* exception that left stream_video_content
    disconnected, \* what request.is_disconnected() answers
    \* --- history (written, never read by the program)
    sigLog,       \* signals stream_video_content sent: <<phase, signal>>
    spawnOrder,   \* processes the script launched, in order
    spawnFailed,  \* which launch failed: "none" | "script" | "video" | ...
    scriptKills,  \* processes the script's setup handler killed
    exitPath,     \* how the read loop of stream_video_content ended
    finallyRuns,  \* times the finally block of stream_video_content ran
    timedOut,     \* phases of stream_video_content whose wait_for timed out
    ctlRead,      \* every byte stream_video_content read, in order
    relayRead,    \* every byte the relay loop read, in order
    relayWritten, \* every byte the relay loop wrote, in order
    relayError,   \* a write of the relay loop raised
    fdsAtFirstRead, \* descriptors the script held when it first read ffmpeg output
    errorLogged,  \* stream_video_content logged a non-zero exit code
    \* --- main.py: the action log (download_actions_log) and its expiry tasks
    actionLog,    \* actionLog[id] : the status stored for id, or Absent
    timers,       \* running delete_log_after_delay tasks: [id, left, owner]
    lastQuery,    \* answer of the last GET /log/{id}: [id, code, action]
    lastSet,      \* history: the status last written for each id
    lastWriter,   \* history: the request that last wrote the status of each id
    expiryError,  \* history: a delete_log_after_delay task ended with an error
    \* --- main.py: requests seen by the action log (several may be in flight)
    rpc,          \* rpc[r] : how far request r is
    rid,          \* rid[r] : the download_id of request r
    \* --- main.py: one request as download_video (the handler) sees it
    reqUrl,       \* form field url
    reqId,        \* form field download_id
    reqContainer, \* form field container, which the handler does not declare
    infoOut,      \* what yt-dlp --dump-json gave: [code, stderr, stdout]
    httpError,    \* HTTPException that left the handler: [status, detail]
    mediaType,    \* media_type of the StreamingResponse
    outputExt,    \* output_ext, the extension of the file name
    title,        \* the title in the metadata, or NoTitle when it has none
    safeTitle,    \* safe_title
    fileName,     \* original_filename
    cookieFileStream, \* COOKIE_FILE_STREAM: "none" or the configured path
    \* --- main.py: several stream_video_content generators running at once
    mpc,          \* mpc[r] : position of the generator of request r
    process,      \* process[r] : the local variable process of that generator
    pst,          \* pst[p] : "none" | "running" | "exited", for process p
    psig,         \* psig[p] : signal sent to p and not yet delivered
    mdisc,        \* mdisc[r] : the client of request r has disconnected
    msent,        \* history: msent[r] : the process request r signalled last
    mgot,         \* history: mgot[r] : the process request r got data from last
    lastSpawned   \* history: the process created last

procVars == <<st, rc, sig>>
scriptVars == <<spc, clProc, parentFds, ffmpegFds, ffStdoutOpen, relayBuf, sysExit,
                stdoutBuf, ffmpegFormat>>
pipeVars == <<produced, ffOut, scriptOut>>
ctlVars == <<cpc, chunk, response, respStatus, pendingExc, raised>>
scriptHist == <<spawnOrder, spawnFailed, scriptKills, relayRead, relayWritten,
                relayError, fdsAtFirstRead>>
ctlHist == <<sigLog, exitPath, finallyRuns, timedOut, ctlRead>>
logVars == <<actionLog, timers, lastQuery, lastSet, lastWriter, expiryError>>
reqVars == <<rpc, rid>>
hVars == <<reqUrl, reqId, reqContainer, infoOut, httpError, mediaType, outputExt,
           title, safeTitle, fileName, cookieFileStream>>
multiVars == <<mpc, process, pst, psig, mdisc, msent, mgot, lastSpawned>>
moreVars == <<errorLogged, logVars, reqVars, hVars, multiVars>>
vars == <<procVars, scriptVars, pipeVars, ctlVars, disconnected, scriptHist, ctlHist,
          moreVars>>

\* ---------------------------------------------------------------- helpers
Min(a, b) == IF a < b THEN a ELSE b

Take(s, n) == SubSeq(s, 1, n)
Drop(s, n) == SubSeq(s, n + 1, Len(s))

IsPrefix(s, t) == Len(s) <= Len(t) /\ s = SubSeq(t, 1, Len(s))

\* The byte stream ffmpeg has produced so far.
Stream(n) == [i \in 1..n |-> i]

\* Popen.poll() is None / asyncio Process.returncode is None.
StillRunning(p) == st[p] = "running"

\* Popen.kill / Popen.terminate / Process.kill / Process.terminate: the signal
\* reaches a process that has not exited; SIGKILL overrides a pending SIGTERM.
SendSignal(s, p, signal) ==
    IF st[p] = "running" /\ (s[p] = "none" \/ signal = "KILL")
    THEN [s EXCEPT ![p] = signal]
    ELSE s

\* A process takes steps of its own only while no signal is pending for it.
Active(p) == st[p] = "running" /\ sig[p] = "none"

\* No process started, nothing read or written: the pipeline before
\* stream_video_content takes its first step.
PipelineIdle ==
    /\ st = [p \in Procs |-> "none"]
    /\ rc = [p \in Procs |-> "None"]
    /\ sig = [p \in Procs |-> "none"]
    /\ spc = "idle"
    /\ clProc = "none"
    /\ parentFds = {}
    /\ ffmpegFds = {}
    /\ ffStdoutOpen = FALSE
    /\ relayBuf = <<>>
    /\ stdoutBuf = <<>>
    /\ ffmpegFormat = "none"
    /\ sysExit = FALSE
    /\ produced = 0
    /\ ffOut = <<>>
    /\ scriptOut = <<>>
    /\ chunk = <<>>
    /\ response = <<>>
    /\ respStatus = "none"
    /\ pendingExc = "none"
    /\ raised = "none"
    /\ disconnected = FALSE
    /\ sigLog = <<>>
    /\ spawnOrder = <<>>
    /\ spawnFailed = "none"
    /\ scriptKills = {}
    /\ exitPath = "none"
    /\ finallyRuns = 0
    /\ timedOut = {}
    /\ ctlRead = <<>>
    /\ relayRead = <<>>
    /\ relayWritten = <<>>
    /\ relayError = FALSE
    /\ fdsAtFirstRead = {"unset"}
    /\ errorLogged = FALSE
    /\ mpc = [r \in Reqs |-> "idle"]
    /\ process = [r \in Reqs |-> 0]
    /\ pst = [p \in Reqs |-> "none"]
    /\ psig = [p \in Reqs |-> "none"]
    /\ mdisc = [r \in Reqs |-> FALSE]
    /\ msent = [r \in Reqs |-> 0]
    /\ mgot = [r \in Reqs |-> 0]
    /\ lastSpawned = 0

\* No request has reached the action log yet.
NoRequests ==
    /\ rpc = [r \in Reqs |-> "new"]
    /\ rid = [r \in Reqs |-> "-"]

\* Nothing was asked of GET /log yet, no expiry task runs.
LogIdle ==
    /\ timers = {}
    /\ lastQuery = [id |-> "-", code |-> "none", action |-> "-"]
    /\ expiryError = FALSE

NoHttpError == [status |-> "none", detail |-> <<>>]

\* raise HTTPException(status_code=..., detail=...)
HttpException(status, detail) == [status |-> status, detail |-> detail]
\* An exception that is not an HTTPException.
OtherException == [status |-> "exc", detail |-> <<>>]

\* What the metadata fetch can come to: create_subprocess_exec raises; yt-dlp
\* exits non-zero with some stderr; yt-dlp exits 0 with JSON, with text that
\* is not JSON, or with bytes that are not UTF-8.
NoInfo == [code |-> "None", stderr |-> <<>>, stdout |-> "none"]
InfoOk == [code |-> "0", stderr |-> <<>>, stdout |-> "json"]
InfoOutcomes ==
    {[code |-> "1", stderr |-> e, stdout |-> "none"] : e \in ErrTexts}
    \cup {[code |-> "0", stderr |-> <<>>, stdout |-> k] :
              k \in {"json", "malformed", "nonutf8"}}
    \cup {[code |-> "raise", stderr |-> <<>>, stdout |-> "none"]}

\* A POST /download has arrived and download_video has not taken a step.
HandlerIdle ==
    /\ PipelineIdle
    /\ cpc = "request"
    /\ NoRequests
    /\ LogIdle
    /\ actionLog = [i \in LogIds |-> Absent]
    /\ lastSet = [i \in LogIds |-> Absent]
    /\ lastWriter = [i \in LogIds |-> 0]
    /\ infoOut = NoInfo
    /\ httpError = NoHttpError
    /\ mediaType = "none"
    /\ outputExt = "none"
    /\ safeTitle = <<>>
    /\ fileName = <<>>

\* The streaming specification follows one valid request, with download_id
\* "a" and no container field, from its arrival.
Init ==
    /\ HandlerIdle
    /\ reqUrl = ValidUrl
    /\ reqId = "a"
    /\ reqContainer = "none"
    /\ title = ExampleTitle
    /\ cookieFileStream = "none"

\* The handler specification takes any form fields.
HandlerInit ==
    /\ HandlerIdle
    /\ reqUrl \in Urls
    /\ reqId \in LogIds \cup {EmptyId}
    /\ reqContainer \in Containers
    /\ title = ExampleTitle
    /\ cookieFileStream = "none"

\* ======================================================================
\* main.py : the action log
\* ======================================================================

\* update_action_log: if download_id: download_actions_log[download_id] = action
UpdateActionLog(log, id, action) ==
    IF id # EmptyId THEN [log EXCEPT ![id] = action] ELSE log

\* asyncio.create_task(delete_log_after_delay(download_id, 2)): the task
\* returns at once for a falsy id, otherwise it sleeps for the delay.
NewTimer(id, owner) ==
    IF id # EmptyId
    THEN {[id |-> id, left |-> DeleteDelay, owner |-> owner]}
    ELSE {}

\* Mutant: the entry is deleted without the membership test, so deleting an
\* absent id raises KeyError out of the task.
ExpireDelete_NoCheck(log, id) ==
    [log |-> [log EXCEPT ![id] = Absent], err |-> log[id] = Absent]

\* if download_id in download_actions_log: del download_actions_log[download_id]
\* else: only a log line.
ExpireDelete(log, id) ==
    IF log[id] # Absent
    THEN [log |-> [log EXCEPT ![id] = Absent], err |-> FALSE]
    ELSE [log |-> log, err |-> FALSE]

\* One second passes for every sleeping delete_log_after_delay task; a task
\* whose sleep is over runs before more time passes.
Tick ==
    /\ timers # {}
    /\ \A t \in timers : t.left > 0
    /\ timers' = {[t EXCEPT !.left = @ - 1] : t \in timers}
    /\ UNCHANGED <<procVars, scriptVars, pipeVars, ctlVars, disconnected,
                   scriptHist, ctlHist, errorLogged, multiVars, actionLog, lastQuery,
                   lastSet, lastWriter, expiryError, reqVars, hVars>>

\* await asyncio.sleep(delay_seconds) is over: the task deletes the entry.
ExpireFire ==
    \E t \in timers :
        /\ t.left = 0
        /\ actionLog' = ExpireDelete(actionLog, t.id).log
        /\ expiryError' = (expiryError \/ ExpireDelete(actionLog, t.id).err)
        /\ timers' = timers \ {t}
        /\ rpc' = [r \in Reqs |-> IF r = t.owner /\ rpc[r] = "streaming"
                                  THEN "expired" ELSE rpc[r]]
        /\ UNCHANGED <<procVars, scriptVars, pipeVars, ctlVars, disconnected,
                       scriptHist, ctlHist, errorLogged, multiVars, lastQuery, lastSet, lastWriter,
                       rid, hVars>>

\* ======================================================================
\* ytdl_pipe_merge.py : download_video (streaming mode, no output file)
\* ======================================================================

\* subprocess.Popen of one process of the pipeline succeeds.
Launch(p) ==
    /\ st' = [st EXCEPT ![p] = "running"]
    /\ spawnOrder' = Append(spawnOrder, p)

\* subprocess.Popen raises (executable missing, fork/exec failure): control
\* goes to the except clause of the outer try.
LaunchFails(p) ==
    /\ spawnFailed' = p
    /\ spc' = "setup_except"
    /\ UNCHANGED <<st, spawnOrder>>

\* The options stream_video_content puts on the command line after the url:
\* --video_format and --audio_format in both branches of quality_pref, and
\* --cookies <path> if cookie_file_path.
Command ==
    <<"--video_format", "--audio_format">>
        \o (IF cookieFileStream # "none" THEN <<"--cookies">> ELSE <<>>)

\* The options parser.add_argument declares (-h/--help comes with argparse).
ParserOptions ==
    {"-h", "--help", "-vf", "--video_format", "-af", "--audio_format",
     "-o", "--output"}

\* parser.parse_args(): an option that is not declared ends the script with
\* status 2.
ArgsAccepted == \A i \in DOMAIN Command : Command[i] \in ParserOptions

\* args.url.startswith("http://") or args.url.startswith("https://")
StartsWithHttp(u) == u # <<>> /\ Head(u) \in {"http://", "https://"}

\* __main__: parse_args(), the check of the url, then download_video(...).
ParseArgs ==
    /\ Active(Script) /\ spc = "parse"
    /\ IF ~ArgsAccepted
       THEN /\ st' = [st EXCEPT ![Script] = "exited"]
            /\ rc' = [rc EXCEPT ![Script] = "2"]
            /\ spc' = "rejected"
       ELSE IF ~StartsWithHttp(reqUrl)
       THEN /\ st' = [st EXCEPT ![Script] = "exited"]
            /\ rc' = [rc EXCEPT ![Script] = "1"]
            /\ spc' = "rejected"
       ELSE /\ spc' = "spawn_video"
            /\ UNCHANGED <<st, rc>>
    /\ UNCHANGED <<sig, clProc, parentFds, ffmpegFds, ffStdoutOpen, relayBuf, stdoutBuf, ffmpegFormat,
                   sysExit, pipeVars, ctlVars, disconnected, scriptHist, ctlHist,
                   moreVars>>

\* video_process = subprocess.Popen([... "-f", video_format ...], stdout=PIPE)
SpawnVideo ==
    /\ Active(Script) /\ spc = "spawn_video"
    /\ \/ /\ Launch(Video)
          /\ parentFds' = parentFds \cup {Video}
          /\ spc' = "spawn_audio"
          /\ UNCHANGED spawnFailed
       \/ /\ LaunchFails(Video)
          /\ UNCHANGED parentFds
    /\ UNCHANGED <<rc, sig, clProc, ffmpegFds, ffStdoutOpen, relayBuf, stdoutBuf, ffmpegFormat, sysExit,
                   pipeVars, ctlVars, disconnected, scriptKills, relayRead,
                   relayWritten, relayError, fdsAtFirstRead, ctlHist, moreVars>>

\* Mutant: the audio launch is left out and the script goes on to ffmpeg.
SpawnAudio_Skipped ==
    /\ Active(Script) /\ spc = "spawn_audio"
    /\ spc' = "spawn_ffmpeg"
    /\ UNCHANGED <<procVars, clProc, parentFds, ffmpegFds, ffStdoutOpen, relayBuf, stdoutBuf, ffmpegFormat,
                   sysExit, pipeVars, ctlVars, disconnected, scriptHist, ctlHist, moreVars>>

\* audio_process = subprocess.Popen([... "-f", audio_format ...], stdout=PIPE)
SpawnAudio ==
    /\ Active(Script) /\ spc = "spawn_audio"
    /\ \/ /\ Launch(Audio)
          /\ parentFds' = parentFds \cup {Audio}
          /\ spc' = "spawn_ffmpeg"
          /\ UNCHANGED spawnFailed
       \/ /\ LaunchFails(Audio)
          /\ UNCHANGED parentFds
    /\ UNCHANGED <<rc, sig, clProc, ffmpegFds, ffStdoutOpen, relayBuf, stdoutBuf, ffmpegFormat, sysExit,
                   pipeVars, ctlVars, disconnected, scriptKills, relayRead,
                   relayWritten, relayError, fdsAtFirstRead, ctlHist, moreVars>>

\* ffmpeg_command: [..., "-c:v", "copy", "-c:a", "copy", "-f", "webm", "pipe:1"]
MuxerFormat == "webm"

\* ffmpeg_process = subprocess.Popen(ffmpeg_command, pass_fds=(video fd, audio fd),
\*                                   stdin=PIPE, stdout=PIPE)
SpawnFfmpeg ==
    /\ Active(Script) /\ spc = "spawn_ffmpeg"
    /\ \/ /\ Launch(Ffmpeg)
          /\ ffmpegFds' = parentFds
          /\ ffStdoutOpen' = TRUE
          /\ ffmpegFormat' = MuxerFormat
          /\ spc' = "close_fds"
          /\ UNCHANGED spawnFailed
       \/ /\ LaunchFails(Ffmpeg)
          /\ UNCHANGED <<ffmpegFds, ffStdoutOpen, ffmpegFormat>>
    /\ UNCHANGED <<rc, sig, clProc, parentFds, relayBuf, stdoutBuf, sysExit,
                   pipeVars, ctlVars, disconnected, scriptKills, relayRead,
                   relayWritten, relayError, fdsAtFirstRead, ctlHist, moreVars>>

\* Mutant: only the video descriptor is closed.
CloseFds_VideoOnly ==
    /\ Active(Script) /\ spc = "close_fds"
    /\ parentFds' = parentFds \ {Video}
    /\ spc' = "relay_read"
    /\ UNCHANGED <<procVars, clProc, ffmpegFds, ffStdoutOpen, relayBuf, stdoutBuf, ffmpegFormat, sysExit,
                   pipeVars, ctlVars, disconnected, scriptHist, ctlHist, moreVars>>

\* video_process.stdout.close(); audio_process.stdout.close()
CloseFds ==
    /\ Active(Script) /\ spc = "close_fds"
    /\ parentFds' = parentFds \ {Video, Audio}
    /\ spc' = "relay_read"
    /\ UNCHANGED <<procVars, clProc, ffmpegFds, ffStdoutOpen, relayBuf, stdoutBuf, ffmpegFormat, sysExit,
                   pipeVars, ctlVars, disconnected, scriptHist, ctlHist, moreVars>>

\* chunk = ffmpeg_process.stdout.read(4096): a buffered read, which returns
\* 4096 bytes, or fewer only at end of file; b"" ends the loop.
RelayRead ==
    /\ Active(Script) /\ spc = "relay_read"
    /\ \/ /\ Len(ffOut) >= RelayChunkSize
          /\ relayBuf' = Take(ffOut, RelayChunkSize)
          /\ ffOut' = Drop(ffOut, RelayChunkSize)
          /\ spc' = "relay_write"
       \/ /\ Len(ffOut) < RelayChunkSize /\ st[Ffmpeg] = "exited"
          /\ relayBuf' = ffOut
          /\ ffOut' = <<>>
          /\ spc' = IF ffOut = <<>> THEN "relay_close" ELSE "relay_write"
    /\ relayRead' = relayRead \o relayBuf'
    /\ fdsAtFirstRead' = IF fdsAtFirstRead = {"unset"} THEN parentFds ELSE fdsAtFirstRead
    /\ UNCHANGED <<procVars, clProc, parentFds, ffmpegFds, ffStdoutOpen, sysExit,
                   stdoutBuf, ffmpegFormat,
                   produced, scriptOut, ctlVars, disconnected, spawnOrder,
                   spawnFailed, scriptKills, relayWritten, relayError, ctlHist, moreVars>>

\* Mutant: the chunk is written twice.
WriteChunk_Twice ==
    /\ scriptOut' = scriptOut \o relayBuf \o relayBuf
    /\ relayWritten' = relayWritten \o relayBuf \o relayBuf

\* sys.stdout.buffer.write(chunk); sys.stdout.buffer.flush()
WriteChunk ==
    /\ scriptOut' = scriptOut \o relayBuf
    /\ relayWritten' = relayWritten \o relayBuf

\* The write succeeds, or it raises and the except clause of the relay loop
\* takes over; the chunk then stays in the buffer of sys.stdout.
RelayWrite ==
    /\ Active(Script) /\ spc = "relay_write"
    /\ \/ /\ WriteChunk
          /\ spc' = "relay_read"
          /\ UNCHANGED <<relayError, stdoutBuf>>
       \/ /\ spc' = "relay_except"
          /\ relayError' = TRUE
          /\ stdoutBuf' = relayBuf
          /\ UNCHANGED <<scriptOut, relayWritten>>
    /\ relayBuf' = <<>>
    /\ UNCHANGED <<procVars, clProc, parentFds, ffmpegFds, ffStdoutOpen, sysExit,
                   ffmpegFormat,
                   produced, ffOut, ctlVars, disconnected, spawnOrder,
                   spawnFailed, scriptKills, relayRead,
                   fdsAtFirstRead, ctlHist, moreVars>>

\* except Exception: if ffmpeg_process.poll() is None: ffmpeg_process.terminate()
RelayExcept ==
    /\ Active(Script) /\ spc = "relay_except"
    /\ sig' = IF StillRunning(Ffmpeg) THEN SendSignal(sig, Ffmpeg, "TERM") ELSE sig
    /\ spc' = "relay_close"
    /\ UNCHANGED <<st, rc, clProc, parentFds, ffmpegFds, ffStdoutOpen, relayBuf, stdoutBuf, ffmpegFormat,
                   sysExit, pipeVars, ctlVars, disconnected, scriptHist, ctlHist, moreVars>>

\* finally: ffmpeg_process.stdout.close(); then the outer finally begins with
\* ffmpeg.
RelayClose ==
    /\ Active(Script) /\ spc = "relay_close"
    /\ ffStdoutOpen' = FALSE
    /\ ffOut' = <<>>
    /\ spc' = "cleanup"
    /\ clProc' = Ffmpeg
    /\ UNCHANGED <<procVars, parentFds, ffmpegFds, relayBuf, stdoutBuf, ffmpegFormat, sysExit, produced,
                   scriptOut, ctlVars, disconnected, scriptHist, ctlHist, moreVars>>

\* Mutant: the except clause kills the video process only.
KillTargets_VideoOnly == {p \in {Video} : StillRunning(p)}

\* The processes the except clause of the outer try kills: those that were
\* started and whose poll() is None.
KillTargets == {p \in Children : StillRunning(p)}

\* except Exception: kill video, audio and ffmpeg if running; sys.exit(1).
\* SystemExit then propagates through the finally block.
SetupExcept ==
    /\ Active(Script) /\ spc = "setup_except"
    /\ sig' = [p \in Procs |-> IF p \in KillTargets THEN "KILL" ELSE sig[p]]
    /\ scriptKills' = KillTargets
    /\ sysExit' = TRUE
    /\ spc' = "cleanup"
    /\ clProc' = Ffmpeg
    /\ UNCHANGED <<st, rc, parentFds, ffmpegFds, ffStdoutOpen, relayBuf, stdoutBuf, ffmpegFormat,
                   pipeVars, ctlVars, disconnected, spawnOrder, spawnFailed,
                   relayRead, relayWritten, relayError, fdsAtFirstRead, ctlHist, moreVars>>

\* Order of the three blocks of the finally clause.
NextCleanup(p) ==
    CASE p = Ffmpeg -> Video
      [] p = Video -> Audio
      [] OTHER -> "end"

\* Mutant: a process still running when its timeout expires is left alone and
\* teardown moves on to the next one.
CleanupStep_NoKill ==
    /\ Active(Script) /\ spc = "cleanup" /\ clProc \in Children
    /\ clProc' = NextCleanup(clProc)
    /\ UNCHANGED <<procVars, spc, parentFds, ffmpegFds, ffStdoutOpen, relayBuf, stdoutBuf, ffmpegFormat,
                   sysExit, pipeVars, ctlVars, disconnected, scriptHist, ctlHist,
                   moreVars>>

\* if <process>: try: <process>.communicate(timeout=...)
\*   - the handle is None: the block is skipped;
\*   - the process has exited: communicate returns;
\*   - TimeoutExpired: <process>.kill(), then communicate() again.
CleanupStep ==
    /\ Active(Script) /\ spc = "cleanup" /\ clProc \in Children
    /\ IF st[clProc] = "running"
       THEN /\ sig' = SendSignal(sig, clProc, "KILL")
            /\ spc' = "reap"
            /\ UNCHANGED clProc
       ELSE /\ clProc' = NextCleanup(clProc)
            /\ UNCHANGED <<sig, spc>>
    /\ UNCHANGED <<st, rc, parentFds, ffmpegFds, ffStdoutOpen, relayBuf, stdoutBuf, ffmpegFormat, sysExit,
                   pipeVars, ctlVars, disconnected, scriptHist, ctlHist, moreVars>>

\* The communicate() that follows kill() returns once the process is gone.
CleanupReap ==
    /\ Active(Script) /\ spc = "reap"
    /\ st[clProc] = "exited"
    /\ spc' = "cleanup"
    /\ clProc' = NextCleanup(clProc)
    /\ UNCHANGED <<procVars, parentFds, ffmpegFds, ffStdoutOpen, relayBuf, stdoutBuf, ffmpegFormat, sysExit,
                   pipeVars, ctlVars, disconnected, scriptHist, ctlHist, moreVars>>

\* all_attempted_and_ok
AllAttemptedAndOk == \A p \in Children : st[p] # "none" /\ rc[p] = "0"

\* any_process_started
AnyProcessStarted == \E p \in Children : st[p] # "none"

\* Exit status of the script: a propagating SystemExit(1) gives 1; otherwise 0
\* when all three succeeded, 1 when something was started and failed.
ExitStatus ==
    IF sysExit THEN "1"
    ELSE IF AllAttemptedAndOk THEN "0"
    ELSE IF AnyProcessStarted THEN "1"
    ELSE "0"

\* End of the finally clause: the script exits and its stdout closes.  The
\* interpreter flushes sys.stdout on its way out: bytes a failed flush left in
\* the buffer are written now, or the flush fails again and the exit status
\* becomes 120.
ScriptFinish ==
    /\ Active(Script) /\ spc = "cleanup" /\ clProc = "end"
    /\ st' = [st EXCEPT ![Script] = "exited"]
    /\ \/ /\ rc' = [rc EXCEPT ![Script] = ExitStatus]
          /\ scriptOut' = scriptOut \o stdoutBuf
          /\ relayWritten' = relayWritten \o stdoutBuf
       \/ /\ stdoutBuf # <<>>
          /\ rc' = [rc EXCEPT ![Script] = "120"]
          /\ UNCHANGED <<scriptOut, relayWritten>>
    /\ stdoutBuf' = <<>>
    /\ spc' = "exited"
    /\ UNCHANGED <<sig, clProc, parentFds, ffmpegFds, ffStdoutOpen, relayBuf,
                   ffmpegFormat, sysExit, produced, ffOut, ctlVars, disconnected,
                   spawnOrder, spawnFailed, scriptKills, relayRead, relayError,
                   fdsAtFirstRead, ctlHist, moreVars>>

\* ======================================================================
\* The operating system: children of the script and signal delivery
\* ======================================================================

\* ffmpeg writes the next unit of the merged stream to pipe:1 while the script
\* holds the read end.
FfmpegWrite ==
    /\ Active(Ffmpeg) /\ Active(Script) /\ ffStdoutOpen
    /\ produced < MaxBytes
    /\ produced' = produced + 1
    /\ ffOut' = Append(ffOut, produced + 1)
    /\ UNCHANGED <<procVars, scriptVars, scriptOut, ctlVars, disconnected,
                   scriptHist, ctlHist, moreVars>>

\* yt-dlp or ffmpeg ends by itself, with success or with an error.
ChildExit ==
    \E p \in Children, code \in {"0", "1"} :
        /\ Active(p)
        /\ st' = [st EXCEPT ![p] = "exited"]
        /\ rc' = [rc EXCEPT ![p] = code]
        /\ UNCHANGED <<sig, scriptVars, pipeVars, ctlVars, disconnected,
                       scriptHist, ctlHist, moreVars>>

\* A signalled process dies.  The merge script installs no handler, so SIGTERM
\* ends it where it stands: neither its except nor its finally clause runs and
\* its children are left as they are.
Signalled ==
    \E p \in Procs :
        /\ st[p] = "running" /\ sig[p] # "none"
        /\ st' = [st EXCEPT ![p] = "exited"]
        /\ rc' = [rc EXCEPT ![p] = IF sig[p] = "KILL" THEN "-9" ELSE "-15"]
        /\ sig' = [sig EXCEPT ![p] = "none"]
        /\ UNCHANGED <<scriptVars, pipeVars, ctlVars, disconnected,
                       scriptHist, ctlHist, moreVars>>

\* ======================================================================
\* main.py : download_video (handler) and stream_video_content
\* ======================================================================

\* process.returncode is None
ReturncodeIsNone == StillRunning(Script)

\* The part of the handler that only touches the request and the log leaves
\* the pipeline and the other requests alone.
HandlerOnly ==
    UNCHANGED <<procVars, scriptVars, pipeVars, chunk, response, pendingExc,
                raised, disconnected, scriptHist, ctlHist, errorLogged, multiVars, timers,
                lastQuery, expiryError, reqVars, reqUrl, reqId, reqContainer,
                title, cookieFileStream>>

\* The HTTPException leaves download_video: FastAPI answers with its status
\* and {"detail": ...}.
RaiseHttp(e) ==
    /\ httpError' = e
    /\ respStatus' = e.status
    /\ cpc' = "error"

\* if not url: 400; if not download_id: 400; then
\* update_action_log(download_id, f"Fetching video info for: {url}").
HandlerBegin ==
    /\ cpc = "request"
    /\ IF reqUrl = <<>>
       THEN /\ RaiseHttp(HttpException("400", <<"URL parameter is missing.">>))
            /\ UNCHANGED <<actionLog, lastSet, lastWriter>>
       ELSE IF reqId = EmptyId
       THEN /\ RaiseHttp(HttpException("400", <<"Download ID parameter is missing.">>))
            /\ UNCHANGED <<actionLog, lastSet, lastWriter>>
       ELSE /\ actionLog' = UpdateActionLog(actionLog, reqId, FetchingStatus)
            /\ lastSet' = UpdateActionLog(lastSet, reqId, FetchingStatus)
            /\ lastWriter' = UpdateActionLog(lastWriter, reqId, 1)
            /\ cpc' = "info"
            /\ UNCHANGED <<httpError, respStatus>>
    /\ HandlerOnly
    /\ UNCHANGED <<infoOut, mediaType, outputExt,
                 safeTitle, fileName>>

\* stderr.decode('utf-8'), and on UnicodeDecodeError
\* stderr.decode('latin-1', errors='ignore'): latin-1 maps every byte to a
\* character, the invalid byte to one that is not the byte.
DecodeStderr(b) ==
    IF \A i \in DOMAIN b : b[i] # "x"
    THEN b
    ELSE [i \in DOMAIN b |-> IF b[i] = "x" THEN "y" ELSE b[i]]

\* str.strip(): leading and trailing blanks removed.
RECURSIVE Strip(_)
Strip(t) ==
    IF t = <<>> THEN <<>>
    ELSE IF Head(t) = " " THEN Strip(Tail(t))
    ELSE IF t[Len(t)] = " " THEN Strip(SubSeq(t, 1, Len(t) - 1))
    ELSE t

\* get_video_info: what it raises for an outcome of yt-dlp --dump-json, or
\* NoHttpError when it returns the parsed metadata.
GetVideoInfoRaises(out) ==
    IF out.code = "raise" THEN OtherException
    ELSE IF out.code # "0"
    THEN HttpException("400", <<"Failed to get video info: ">>
                                 \o Strip(DecodeStderr(out.stderr)))
    ELSE IF out.stdout = "malformed"
    THEN HttpException("500", <<"Error parsing video information.">>)
    ELSE IF out.stdout = "nonutf8"
    THEN HttpException("500", <<"Error decoding video information (non-UTF8).">>)
    ELSE NoHttpError

\* Mutant: one except clause for everything, so that an HTTPException of the
\* metadata fetch becomes a 500 as well.
DownloadExcept_CatchAll(e) ==
    HttpException("500", <<"An internal server error occurred: ">>)

\* except HTTPException: raise
\* except Exception as e: raise HTTPException(status_code=500, ...)
DownloadExcept(e) ==
    IF e.status # "exc"
    THEN e
    ELSE HttpException("500", <<"An internal server error occurred: ">>)

\* info = await get_video_info(url, cookie_file_path=COOKIE_FILE_INFO) inside
\* the try statement of download_video.
GetVideoInfo ==
    /\ cpc = "info"
    /\ \E out \in InfoOutcomes :
          /\ infoOut' = out
          /\ IF GetVideoInfoRaises(out) = NoHttpError
             THEN /\ cpc' = "build"
                  /\ UNCHANGED <<httpError, respStatus>>
             ELSE RaiseHttp(DownloadExcept(GetVideoInfoRaises(out)))
    /\ HandlerOnly
    /\ UNCHANGED <<actionLog, lastSet, lastWriter, mediaType, outputExt,
                 safeTitle, fileName>>

\* unsafe_chars = ['/', '\\', ':', '*', '?', '"', '<', '>', '|']
UnsafeChars == <<"/", "\\", ":", "*", "?", "\"", "<", ">", "|">>

\* Mutant: str.replace with count 1, only the first occurrence is replaced.
Replace_FirstOnly(t, c, d) ==
    [i \in DOMAIN t |->
        IF t[i] = c /\ (\A j \in 1..(i - 1) : t[j] # c) THEN d ELSE t[i]]

\* str.replace(c, d) for a single character c
Replace(t, c, d) == [i \in DOMAIN t |-> IF t[i] = c THEN d ELSE t[i]]

\* for char in unsafe_chars: safe_title = safe_title.replace(char, '_')
RECURSIVE ReplaceEach(_, _)
ReplaceEach(t, cs) ==
    IF cs = <<>> THEN t
    ELSE ReplaceEach(Replace(t, Head(cs), "_"), Tail(cs))

\* title = info.get('title', 'video')
MetadataTitle(t) == IF t = NoTitle THEN <<"v", "i", "d", "e", "o">> ELSE t

\* safe_title: the loop, then .replace("'", "_").replace('"', '_').strip()
SafeTitle(t) ==
    Strip(Replace(Replace(ReplaceEach(MetadataTitle(t), UnsafeChars),
                          "'", "_"), "\"", "_"))

\* original_filename = f"{safe_title}.{output_ext}" if safe_title
\*                     else f"video.{output_ext}"
OriginalFilename(t, ext) ==
    IF SafeTitle(t) # <<>>
    THEN SafeTitle(t) \o <<".", ext>>
    ELSE <<"v", "i", "d", "e", "o", ".", ext>>

\* Mutant: the container the client asked for is used.
BuildResponse_HonourContainer ==
    /\ cpc = "build"
    /\ outputExt' = IF reqContainer = "none" THEN "mkv" ELSE reqContainer
    /\ safeTitle' = SafeTitle(title)
    /\ fileName' = OriginalFilename(title, outputExt')
    /\ mediaType' = IF reqContainer \in {"none", "mkv"} THEN "video/x-matroska"
                     ELSE "video/" \o reqContainer
    /\ actionLog' = UpdateActionLog(actionLog, reqId, StartingStatus)
    /\ lastSet' = UpdateActionLog(lastSet, reqId, StartingStatus)
    /\ lastWriter' = UpdateActionLog(lastWriter, reqId, 1)
    /\ cpc' = "handler"
    /\ HandlerOnly
    /\ UNCHANGED <<infoOut, httpError, respStatus>>

\* output_ext = "mkv"; media_type = "video/x-matroska"; file name and
\* headers; update_action_log(download_id, "Starting video stream ...").
\* download_video declares the form fields url, quality and download_id: a
\* container field of the request is not read.
BuildResponse ==
    /\ cpc = "build"
    /\ outputExt' = "mkv"
    /\ safeTitle' = SafeTitle(title)
    /\ fileName' = OriginalFilename(title, "mkv")
    /\ mediaType' = "video/x-matroska"
    /\ actionLog' = UpdateActionLog(actionLog, reqId, StartingStatus)
    /\ lastSet' = UpdateActionLog(lastSet, reqId, StartingStatus)
    /\ lastWriter' = UpdateActionLog(lastWriter, reqId, 1)
    /\ cpc' = "handler"
    /\ HandlerOnly
    /\ UNCHANGED <<infoOut, httpError, respStatus>>

\* process.terminate() / process.kill() in the given phase of the generator.
Signal(phase, signal) ==
    /\ sig' = SendSignal(sig, Script, signal)
    /\ sigLog' = Append(sigLog, <<phase, signal>>)

\* return StreamingResponse(stream_video_content(...), media_type, headers):
\* calling the async generator function runs none of its body, so the handler
\* has returned its (status 200) response before the generator's first step.
ReturnStreamingResponse ==
    /\ cpc = "handler"
    /\ respStatus' = "200"
    /\ cpc' = "spawn"
    /\ UNCHANGED <<procVars, scriptVars, pipeVars, chunk, response, pendingExc,
                   raised, disconnected, scriptHist, ctlHist, moreVars>>

\* process = await asyncio.create_subprocess_exec(*command, stdout=PIPE, ...)
\* stands before the try statement: when it raises, the exception leaves the
\* generator and neither the except nor the finally clause runs.  After a
\* successful spawn: if download_id: create_task(delete_log_after_delay(id, 2)).
SpawnScript ==
    /\ cpc = "spawn"
    /\ \/ /\ st' = [st EXCEPT ![Script] = "running"]
          /\ spc' = "parse"
          /\ cpc' = "check"
          /\ timers' = timers \cup NewTimer(reqId, 1)
          /\ UNCHANGED <<spawnFailed, raised>>
       \/ \E e \in Excs :
          /\ spawnFailed' = Script
          /\ raised' = e
          /\ cpc' = "raised"
          /\ UNCHANGED <<st, spc, timers>>
    /\ UNCHANGED <<rc, sig, clProc, parentFds, ffmpegFds, ffStdoutOpen, relayBuf, stdoutBuf, ffmpegFormat,
                   sysExit, pipeVars, chunk, response, respStatus, pendingExc,
                   disconnected, spawnOrder, scriptKills, relayRead,
                   relayWritten, relayError, fdsAtFirstRead, ctlHist,
                   errorLogged, multiVars, actionLog, lastQuery, lastSet, lastWriter, expiryError,
                   reqVars, hVars>>

\* The client goes away; request.is_disconnected() answers True from now on.
ClientDisconnect ==
    /\ cpc \notin {"request", "info", "build", "error", "handler",
                    "done", "closed", "raised"}
    /\ ~disconnected
    /\ disconnected' = TRUE
    /\ UNCHANGED <<procVars, scriptVars, pipeVars, ctlVars, scriptHist, ctlHist, moreVars>>

\* Mutant: a detected disconnect breaks out of the loop without stopping the
\* process, so the wait after the loop is for a process that still runs.
CheckDisconnect_NoTerminate ==
    /\ cpc = "check"
    /\ IF disconnected
       THEN /\ exitPath' = "disconnect"
            /\ cpc' = "wait"
       ELSE /\ cpc' = "read"
            /\ UNCHANGED exitPath
    /\ UNCHANGED <<procVars, scriptVars, pipeVars, chunk, response, respStatus,
                   pendingExc, raised, disconnected, scriptHist, sigLog,
                   finallyRuns, timedOut, ctlRead, moreVars>>

\* Mutant: the disconnect is noticed and the process terminated, but the
\* iteration goes on to its read.
CheckDisconnect_ReadAnyway ==
    /\ cpc = "check"
    /\ IF disconnected
       THEN /\ exitPath' = "disconnect"
            /\ cpc' = "read"
            /\ IF ReturncodeIsNone
               THEN Signal("disconnect", "TERM")
               ELSE UNCHANGED <<sig, sigLog>>
       ELSE /\ cpc' = "read"
            /\ UNCHANGED <<sig, sigLog, exitPath>>
    /\ UNCHANGED <<st, rc, scriptVars, pipeVars, chunk, response, respStatus,
                   pendingExc, raised, disconnected, scriptHist, finallyRuns,
                   timedOut, ctlRead, moreVars>>

\* Top of the loop: if await request.is_disconnected(): terminate the process
\* if its returncode is None, then break; otherwise go on to the read.
CheckDisconnect ==
    /\ cpc = "check"
    /\ IF disconnected
       THEN /\ exitPath' = "disconnect"
            /\ IF ReturncodeIsNone
               THEN /\ Signal("disconnect", "TERM")
                    /\ cpc' = "dc_wait"
               ELSE /\ cpc' = "wait"
                    /\ UNCHANGED <<sig, sigLog>>
       ELSE /\ cpc' = "read"
            /\ UNCHANGED <<sig, sigLog, exitPath>>
    /\ UNCHANGED <<st, rc, scriptVars, pipeVars, chunk, response, respStatus,
                   pendingExc, raised, disconnected, scriptHist, finallyRuns,
                   timedOut, ctlRead, moreVars>>

\* Mutant: the kill is sent whether or not the process exited in time.
DisconnectWait_KillAnyway ==
    /\ cpc = "dc_wait"
    /\ Signal("disconnect", "KILL")
    /\ timedOut' = IF ReturncodeIsNone THEN timedOut \cup {"disconnect"} ELSE timedOut
    /\ cpc' = "dc_reap"
    /\ UNCHANGED <<st, rc, scriptVars, pipeVars, chunk, response, respStatus,
                   pendingExc, raised, disconnected, scriptHist, exitPath,
                   finallyRuns, ctlRead, moreVars>>

\* await asyncio.wait_for(process.wait(), timeout=5.0): the process exits in
\* time and the loop breaks, or TimeoutError: process.kill().
DisconnectWait ==
    /\ cpc = "dc_wait"
    /\ IF ReturncodeIsNone
       THEN /\ Signal("disconnect", "KILL")
            /\ timedOut' = timedOut \cup {"disconnect"}
            /\ cpc' = "dc_reap"
       ELSE /\ cpc' = "wait"
            /\ UNCHANGED <<sig, sigLog, timedOut>>
    /\ UNCHANGED <<st, rc, scriptVars, pipeVars, chunk, response, respStatus,
                   pendingExc, raised, disconnected, scriptHist, exitPath,
                   finallyRuns, ctlRead, moreVars>>

\* await process.wait() after the kill, then break.
DisconnectReap ==
    /\ cpc = "dc_reap"
    /\ ~ReturncodeIsNone
    /\ cpc' = "wait"
    /\ UNCHANGED <<procVars, scriptVars, pipeVars, chunk, response, respStatus,
                   pendingExc, raised, disconnected, scriptHist, ctlHist, moreVars>>

\* chunk = await process.stdout.read(chunk_size): between 1 and chunk_size
\* bytes of what the pipe holds; b"" once the script has closed its stdout
\* (it has exited) and the pipe is empty; or the read raises.
ReadChunk ==
    /\ cpc = "read"
    /\ \/ \E n \in 1..Min(ChunkSize, Len(scriptOut)) :
          /\ chunk' = Take(scriptOut, n)
          /\ scriptOut' = Drop(scriptOut, n)
          /\ ctlRead' = ctlRead \o Take(scriptOut, n)
          /\ cpc' = "yield"
          /\ UNCHANGED <<pendingExc, exitPath>>
       \/ /\ scriptOut = <<>> /\ st[Script] = "exited"
          /\ exitPath' = "eof"
          /\ cpc' = "wait"
          /\ UNCHANGED <<chunk, scriptOut, ctlRead, pendingExc>>
       \/ \E e \in Excs :
          /\ pendingExc' = e
          /\ cpc' = "except"
          /\ UNCHANGED <<chunk, scriptOut, ctlRead, exitPath>>
    /\ UNCHANGED <<procVars, scriptVars, produced, ffOut, response, respStatus,
                   raised, disconnected, scriptHist, sigLog, finallyRuns, timedOut, moreVars>>

\* yield chunk: the chunk goes to the response body and the generator is
\* suspended until the consumer comes back.
YieldChunk ==
    /\ cpc = "yield"
    /\ response' = response \o chunk
    /\ cpc' = "suspended"
    /\ UNCHANGED <<procVars, scriptVars, pipeVars, chunk, respStatus, pendingExc,
                   raised, disconnected, scriptHist, ctlHist, moreVars>>

\* The consumer asks for the next chunk, throws an exception into the
\* generator (forwarding failed), or closes it (GeneratorExit, which
\* "except Exception" does not catch).
Resume ==
    /\ cpc = "suspended"
    /\ chunk' = <<>>
    /\ \/ /\ cpc' = "check"
          /\ UNCHANGED <<pendingExc, exitPath>>
       \/ \E e \in Excs :
          /\ pendingExc' = e
          /\ cpc' = "except"
          /\ UNCHANGED exitPath
       \/ /\ exitPath' = "closed"
          /\ cpc' = "finally"
          /\ UNCHANGED pendingExc
    /\ UNCHANGED <<procVars, scriptVars, pipeVars, response, respStatus, raised,
                   disconnected, scriptHist, sigLog, finallyRuns, timedOut, ctlRead, moreVars>>

\* Mutant: a non-zero return code is raised instead of logged.
WaitProcess_RaiseOnError ==
    /\ cpc = "wait"
    /\ ~ReturncodeIsNone
    /\ errorLogged' = FALSE
    /\ pendingExc' = IF rc[Script] # "0" THEN "E1" ELSE pendingExc
    /\ cpc' = "finally"
    /\ UNCHANGED <<procVars, scriptVars, pipeVars, chunk, response, respStatus,
                   raised, disconnected, scriptHist, ctlHist,
                   logVars, reqVars, hVars, multiVars>>

\* return_code = await process.wait() after the loop; a non-zero code is only
\* logged.
WaitProcess ==
    /\ cpc = "wait"
    /\ ~ReturncodeIsNone
    /\ errorLogged' = (rc[Script] # "0")
    /\ cpc' = "finally"
    /\ UNCHANGED <<procVars, scriptVars, pipeVars, chunk, response, respStatus,
                   pendingExc, raised, disconnected, scriptHist, ctlHist,
                   logVars, reqVars, hVars, multiVars>>

\* Mutant: the except clause re-raises without killing the process.
ExceptHandler_NoKill ==
    /\ cpc = "except"
    /\ exitPath' = "exception"
    /\ cpc' = "finally"
    /\ UNCHANGED <<procVars, scriptVars, pipeVars, chunk, response, respStatus,
                   pendingExc, raised, disconnected, scriptHist, sigLog,
                   finallyRuns, timedOut, ctlRead, moreVars>>

\* except Exception: if process.returncode is None: process.kill() and
\* await process.wait() (ExceptReap); then the bare raise, which passes
\* through the finally clause.
ExceptHandler ==
    /\ cpc = "except"
    /\ exitPath' = "exception"
    /\ IF ReturncodeIsNone
       THEN /\ Signal("except", "KILL")
            /\ cpc' = "exc_reap"
       ELSE /\ cpc' = "finally"
            /\ UNCHANGED <<sig, sigLog>>
    /\ UNCHANGED <<st, rc, scriptVars, pipeVars, chunk, response, respStatus,
                   pendingExc, raised, disconnected, scriptHist, finallyRuns,
                   timedOut, ctlRead, moreVars>>

\* await process.wait() returns after the kill; raise follows.
ExceptReap ==
    /\ cpc = "exc_reap"
    /\ ~ReturncodeIsNone
    /\ cpc' = "finally"
    /\ UNCHANGED <<procVars, scriptVars, pipeVars, chunk, response, respStatus,
                   pendingExc, raised, disconnected, scriptHist, ctlHist, moreVars>>

\* The generator ends: the pending exception leaves it, a close completes, or
\* it returns normally.
Leave ==
    /\ raised' = pendingExc
    /\ cpc' = IF pendingExc # "none" THEN "raised"
              ELSE IF exitPath = "closed" THEN "closed"
              ELSE "done"

\* Mutant: the finally clause terminates without looking at returncode.
FinallyEnter_NoCheck ==
    /\ cpc = "finally"
    /\ finallyRuns' = finallyRuns + 1
    /\ Signal("finally", "TERM")
    /\ cpc' = "fin_wait"
    /\ UNCHANGED <<st, rc, scriptVars, pipeVars, chunk, response, respStatus,
                   pendingExc, raised, disconnected, scriptHist, exitPath,
                   timedOut, ctlRead, moreVars>>

\* finally: if process.returncode is None: process.terminate() and wait up to
\* 2 s; otherwise nothing is left to do.
FinallyEnter ==
    /\ cpc = "finally"
    /\ finallyRuns' = finallyRuns + 1
    /\ IF ReturncodeIsNone
       THEN /\ Signal("finally", "TERM")
            /\ cpc' = "fin_wait"
            /\ UNCHANGED raised
       ELSE /\ Leave
            /\ UNCHANGED <<sig, sigLog>>
    /\ UNCHANGED <<st, rc, scriptVars, pipeVars, chunk, response, respStatus,
                   pendingExc, disconnected, scriptHist, exitPath, timedOut, ctlRead, moreVars>>

\* Mutant: a timeout of the final wait is not followed by a kill.
FinallyWait_NoKill ==
    /\ cpc = "fin_wait"
    /\ Leave
    /\ timedOut' = IF ReturncodeIsNone THEN timedOut \cup {"finally"} ELSE timedOut
    /\ UNCHANGED <<procVars, scriptVars, pipeVars, chunk, response, respStatus,
                   pendingExc, disconnected, scriptHist, sigLog, exitPath,
                   finallyRuns, ctlRead, moreVars>>

\* await asyncio.wait_for(process.wait(), timeout=2.0): the process exits in
\* time, or TimeoutError: process.kill().
FinallyWait ==
    /\ cpc = "fin_wait"
    /\ IF ReturncodeIsNone
       THEN /\ Signal("finally", "KILL")
            /\ timedOut' = timedOut \cup {"finally"}
            /\ cpc' = "fin_reap"
            /\ UNCHANGED raised
       ELSE /\ Leave
            /\ UNCHANGED <<sig, sigLog, timedOut>>
    /\ UNCHANGED <<st, rc, scriptVars, pipeVars, chunk, response, respStatus,
                   pendingExc, disconnected, scriptHist, exitPath, finallyRuns,
                   ctlRead, moreVars>>

\* await process.wait() after the final kill.
FinallyReap ==
    /\ cpc = "fin_reap"
    /\ ~ReturncodeIsNone
    /\ Leave
    /\ UNCHANGED <<procVars, scriptVars, pipeVars, chunk, response, respStatus,
                   pendingExc, disconnected, scriptHist, ctlHist, moreVars>>

\* ======================================================================
\* Specification
\* ======================================================================
Next ==
    \/ HandlerBegin
    \/ GetVideoInfo
    \/ BuildResponse
    \/ ReturnStreamingResponse
    \/ SpawnScript
    \/ ClientDisconnect
    \/ CheckDisconnect
    \/ DisconnectWait
    \/ DisconnectReap
    \/ ReadChunk
    \/ YieldChunk
    \/ Resume
    \/ WaitProcess
    \/ ExceptHandler
    \/ ExceptReap
    \/ FinallyEnter
    \/ FinallyWait
    \/ FinallyReap
    \/ ParseArgs
    \/ SpawnVideo
    \/ SpawnAudio
    \/ SpawnFfmpeg
    \/ CloseFds
    \/ RelayRead
    \/ RelayWrite
    \/ RelayExcept
    \/ RelayClose
    \/ SetupExcept
    \/ CleanupStep
    \/ CleanupReap
    \/ ScriptFinish
    \/ FfmpegWrite
    \/ ChildExit
    \/ Signalled
    \/ Tick
    \/ ExpireFire

Spec == Init /\ [][Next]_vars

\* Steps of stream_video_content the event loop takes whenever they are
\* possible.  A read returns when the pipe holds data or is at end of file;
\* that it raises is not something scheduling brings about.
ControllerStep ==
    \/ HandlerBegin
    \/ GetVideoInfo
    \/ BuildResponse
    \/ ReturnStreamingResponse
    \/ SpawnScript
    \/ CheckDisconnect
    \/ DisconnectWait
    \/ DisconnectReap
    \/ (ReadChunk /\ pendingExc' = pendingExc)
    \/ YieldChunk
    \/ Resume
    \/ WaitProcess
    \/ ExceptHandler
    \/ ExceptReap
    \/ FinallyEnter
    \/ FinallyWait
    \/ FinallyReap

\* Steps of the merge script the operating system schedules; a write that
\* fails or a Popen that fails is not brought about by scheduling.
ScriptStep ==
    \/ ParseArgs
    \/ (SpawnVideo /\ spawnFailed' = spawnFailed)
    \/ (SpawnAudio /\ spawnFailed' = spawnFailed)
    \/ (SpawnFfmpeg /\ spawnFailed' = spawnFailed)
    \/ CloseFds
    \/ RelayRead
    \/ (RelayWrite /\ relayError' = relayError)
    \/ RelayExcept
    \/ RelayClose
    \/ SetupExcept
    \/ CleanupStep
    \/ CleanupReap
    \/ ScriptFinish

\* download_video alone, from the arrival of a request with any form fields
\* to the return of the StreamingResponse or the HTTPException.
HandlerNext ==
    \/ HandlerBegin
    \/ GetVideoInfo
    \/ BuildResponse
    \/ ReturnStreamingResponse

HandlerSpec == HandlerInit /\ [][HandlerNext]_vars

\* ----------------------------------------------------------------------
\* The action log under several requests.  Of each request only what touches
\* the log is followed: the two update_action_log calls of download_video and
\* the deletion task stream_video_content creates after its spawn.
\* ----------------------------------------------------------------------
LogOnly ==
    UNCHANGED <<procVars, scriptVars, pipeVars, ctlVars, disconnected,
                scriptHist, ctlHist, errorLogged, multiVars, hVars>>

\* download_video up to update_action_log(download_id, "Fetching ...") for a
\* request that passed the two checks of its form fields.
ReqBegin(r) ==
    /\ rpc[r] = "new"
    /\ \E id \in LogIds :
          /\ rid' = [rid EXCEPT ![r] = id]
          /\ actionLog' = UpdateActionLog(actionLog, id, FetchingStatus)
          /\ lastSet' = UpdateActionLog(lastSet, id, FetchingStatus)
          /\ lastWriter' = UpdateActionLog(lastWriter, id, r)
    /\ rpc' = [rpc EXCEPT ![r] = "info"]
    /\ LogOnly
    /\ UNCHANGED <<timers, lastQuery, expiryError>>

\* get_video_info raises and the request ends, or it returns and
\* download_video goes on to update_action_log(download_id, "Starting ...").
ReqInfo(r) ==
    /\ rpc[r] = "info"
    /\ \/ /\ rpc' = [rpc EXCEPT ![r] = "failed"]
          /\ UNCHANGED <<actionLog, lastSet, lastWriter>>
       \/ /\ rpc' = [rpc EXCEPT ![r] = "starting"]
          /\ actionLog' = UpdateActionLog(actionLog, rid[r], StartingStatus)
          /\ lastSet' = UpdateActionLog(lastSet, rid[r], StartingStatus)
          /\ lastWriter' = UpdateActionLog(lastWriter, rid[r], r)
    /\ LogOnly
    /\ UNCHANGED <<rid, timers, lastQuery, expiryError>>

\* stream_video_content: the spawn raises and nothing is scheduled, or the
\* spawn succeeds and create_task(delete_log_after_delay(download_id, 2)).
ReqSpawn(r) ==
    /\ rpc[r] = "starting"
    /\ \/ /\ rpc' = [rpc EXCEPT ![r] = "failed"]
          /\ UNCHANGED timers
       \/ /\ rpc' = [rpc EXCEPT ![r] = "streaming"]
          /\ timers' = timers \cup NewTimer(rid[r], r)
    /\ LogOnly
    /\ UNCHANGED <<rid, actionLog, lastSet, lastWriter, lastQuery, expiryError>>

\* Mutant: an absent id is answered with 200 and an empty action.
LogEntryResponse_Never404(log, id) ==
    [id |-> id, code |-> "200", action |-> log[id]]

\* action = download_actions_log.get(download_id); None: HTTPException 404;
\* otherwise {"download_id": ..., "last_action": action}.
LogEntryResponse(log, id) ==
    IF log[id] = Absent
    THEN [id |-> id, code |-> "404", action |-> "-"]
    ELSE [id |-> id, code |-> "200", action |-> log[id]]

\* GET /log/{download_id}
GetLogEntry ==
    /\ \E id \in LogIds : lastQuery' = LogEntryResponse(actionLog, id)
    /\ LogOnly
    /\ UNCHANGED <<actionLog, timers, lastSet, lastWriter, expiryError, reqVars>>

LogNext ==
    \/ \E r \in Reqs : ReqBegin(r)
    \/ \E r \in Reqs : ReqInfo(r)
    \/ \E r \in Reqs : ReqSpawn(r)
    \/ Tick
    \/ ExpireFire
    \/ GetLogEntry

LogSpec == Init /\ [][LogNext]_vars

\* ----------------------------------------------------------------------
\* The file name of the response for any metadata title: download_video
\* from the return of get_video_info to the return of its response.
\* ----------------------------------------------------------------------
SanitizeInit ==
    /\ PipelineIdle
    /\ cpc = "build"
    /\ NoRequests
    /\ LogIdle
    /\ actionLog = [i \in LogIds |-> IF i = "a" THEN FetchingStatus ELSE Absent]
    /\ lastSet = [i \in LogIds |-> IF i = "a" THEN FetchingStatus ELSE Absent]
    /\ lastWriter = [i \in LogIds |-> IF i = "a" THEN 1 ELSE 0]
    /\ reqUrl = ValidUrl
    /\ reqId = "a"
    /\ reqContainer = "none"
    /\ infoOut = InfoOk
    /\ httpError = NoHttpError
    /\ mediaType = "none"
    /\ outputExt = "none"
    /\ title \in Titles
    /\ safeTitle = <<>>
    /\ fileName = <<>>
    /\ cookieFileStream = "none"

SanitizeNext ==
    \/ BuildResponse
    \/ ReturnStreamingResponse

SanitizeSpec == SanitizeInit /\ [][SanitizeNext]_vars

\* ----------------------------------------------------------------------
\* A request with any url and any configuration of the streaming cookie file,
\* from its arrival to the point where the merge script has parsed its
\* command line.
\* ----------------------------------------------------------------------
LaunchInit ==
    /\ HandlerIdle
    /\ reqUrl \in Urls
    /\ reqId = "a"
    /\ reqContainer = "none"
    /\ title = ExampleTitle
    /\ cookieFileStream \in CookieFiles

LaunchNext ==
    \/ HandlerBegin
    \/ GetVideoInfo
    \/ BuildResponse
    \/ ReturnStreamingResponse
    \/ SpawnScript
    \/ ParseArgs

LaunchSpec == LaunchInit /\ [][LaunchNext]_vars

\* ----------------------------------------------------------------------
\* Several requests streaming at once.  Each runs its own
\* stream_video_content generator; of the merge script only what the
\* generator sees is kept (it runs, writes output, exits, dies of a signal).
\* The process of request r is named r.
\* ----------------------------------------------------------------------
MultiOnly ==
    UNCHANGED <<procVars, scriptVars, pipeVars, ctlVars, disconnected,
                scriptHist, ctlHist, errorLogged, logVars, reqVars, hVars>>

\* Mutant: process is a module-level variable, so that every generator uses
\* the process created last.
Handle_Shared(r) == lastSpawned

\* The process a generator reads from and signals: its local variable.
Handle(r) == process[r]

\* process.returncode is None, in the generator of request r
Running(r) == pst[Handle(r)] = "running"

\* process.terminate() / process.kill() in the generator of request r
StreamSignal(r, signal) ==
    /\ psig' = IF pst[Handle(r)] = "running"
                   /\ (psig[Handle(r)] = "none" \/ signal = "KILL")
                THEN [psig EXCEPT ![Handle(r)] = signal]
                ELSE psig
    /\ msent' = [msent EXCEPT ![r] = Handle(r)]

\* process = await asyncio.create_subprocess_exec(...)
StreamSpawn(r) ==
    /\ mpc[r] = "idle"
    /\ process' = [process EXCEPT ![r] = r]
    /\ pst' = [pst EXCEPT ![r] = "running"]
    /\ lastSpawned' = r
    /\ mpc' = [mpc EXCEPT ![r] = "check"]
    /\ MultiOnly
    /\ UNCHANGED <<psig, mdisc, msent, mgot>>

\* The client of request r goes away.
StreamDisconnect(r) ==
    /\ mpc[r] \notin {"idle", "done"}
    /\ ~mdisc[r]
    /\ mdisc' = [mdisc EXCEPT ![r] = TRUE]
    /\ MultiOnly
    /\ UNCHANGED <<mpc, process, pst, psig, msent, mgot, lastSpawned>>

\* if await request.is_disconnected(): terminate if returncode is None, break
StreamCheck(r) ==
    /\ mpc[r] = "check"
    /\ IF mdisc[r]
       THEN IF Running(r)
            THEN /\ StreamSignal(r, "TERM")
                 /\ mpc' = [mpc EXCEPT ![r] = "dc_wait"]
            ELSE /\ mpc' = [mpc EXCEPT ![r] = "wait"]
                 /\ UNCHANGED <<psig, msent>>
       ELSE /\ mpc' = [mpc EXCEPT ![r] = "read"]
            /\ UNCHANGED <<psig, msent>>
    /\ MultiOnly
    /\ UNCHANGED <<process, pst, mdisc, mgot, lastSpawned>>

\* await asyncio.wait_for(process.wait(), timeout=5.0), kill on timeout
StreamDisconnectWait(r) ==
    /\ mpc[r] = "dc_wait"
    /\ IF Running(r)
       THEN /\ StreamSignal(r, "KILL")
            /\ mpc' = [mpc EXCEPT ![r] = "dc_reap"]
       ELSE /\ mpc' = [mpc EXCEPT ![r] = "wait"]
            /\ UNCHANGED <<psig, msent>>
    /\ MultiOnly
    /\ UNCHANGED <<process, pst, mdisc, mgot, lastSpawned>>

\* chunk = await process.stdout.read(chunk_size) and yield chunk: the
\* process writes a chunk, the read returns it, and the consumer asks for
\* more, throws, or closes the generator; or end of file; or the read raises.
StreamRead(r) ==
    /\ mpc[r] = "read"
    /\ \/ /\ pst[Handle(r)] = "running" /\ psig[Handle(r)] = "none"
          /\ mgot' = [mgot EXCEPT ![r] = Handle(r)]
          /\ \E to \in {"check", "except", "finally"} :
                mpc' = [mpc EXCEPT ![r] = to]
       \/ /\ pst[Handle(r)] = "exited"
          /\ mpc' = [mpc EXCEPT ![r] = "wait"]
          /\ UNCHANGED mgot
       \/ /\ mpc' = [mpc EXCEPT ![r] = "except"]
          /\ UNCHANGED mgot
    /\ MultiOnly
    /\ UNCHANGED <<process, pst, psig, mdisc, msent, lastSpawned>>

\* await process.wait(): after the loop, after a kill
StreamWait(r) ==
    /\ mpc[r] \in {"wait", "dc_reap", "exc_reap", "fin_reap"}
    /\ ~Running(r)
    /\ mpc' = [mpc EXCEPT ![r] =
                  CASE mpc[r] = "dc_reap" -> "wait"
                    [] mpc[r] = "fin_reap" -> "done"
                    [] OTHER -> "finally"]
    /\ MultiOnly
    /\ UNCHANGED <<process, pst, psig, mdisc, msent, mgot, lastSpawned>>

\* except Exception: if process.returncode is None: process.kill()
StreamExcept(r) ==
    /\ mpc[r] = "except"
    /\ IF Running(r)
       THEN /\ StreamSignal(r, "KILL")
            /\ mpc' = [mpc EXCEPT ![r] = "exc_reap"]
       ELSE /\ mpc' = [mpc EXCEPT ![r] = "finally"]
            /\ UNCHANGED <<psig, msent>>
    /\ MultiOnly
    /\ UNCHANGED <<process, pst, mdisc, mgot, lastSpawned>>

\* finally: if process.returncode is None: process.terminate(), wait 2 s
StreamFinally(r) ==
    /\ mpc[r] = "finally"
    /\ IF Running(r)
       THEN /\ StreamSignal(r, "TERM")
            /\ mpc' = [mpc EXCEPT ![r] = "fin_wait"]
       ELSE /\ mpc' = [mpc EXCEPT ![r] = "done"]
            /\ UNCHANGED <<psig, msent>>
    /\ MultiOnly
    /\ UNCHANGED <<process, pst, mdisc, mgot, lastSpawned>>

\* await asyncio.wait_for(process.wait(), timeout=2.0), kill on timeout
StreamFinalWait(r) ==
    /\ mpc[r] = "fin_wait"
    /\ IF Running(r)
       THEN /\ StreamSignal(r, "KILL")
            /\ mpc' = [mpc EXCEPT ![r] = "fin_reap"]
       ELSE /\ mpc' = [mpc EXCEPT ![r] = "done"]
            /\ UNCHANGED <<psig, msent>>
    /\ MultiOnly
    /\ UNCHANGED <<process, pst, mdisc, mgot, lastSpawned>>

\* The merge script of a request exits, or dies of the signal it was sent.
ProcessExit(p) ==
    /\ pst[p] = "running"
    /\ pst' = [pst EXCEPT ![p] = "exited"]
    /\ psig' = [psig EXCEPT ![p] = "none"]
    /\ MultiOnly
    /\ UNCHANGED <<mpc, process, mdisc, msent, mgot, lastSpawned>>

MultiNext ==
    \/ \E r \in Reqs : StreamSpawn(r)
    \/ \E r \in Reqs : StreamDisconnect(r)
    \/ \E r \in Reqs : StreamCheck(r)
    \/ \E r \in Reqs : StreamDisconnectWait(r)
    \/ \E r \in Reqs : StreamRead(r)
    \/ \E r \in Reqs : StreamWait(r)
    \/ \E r \in Reqs : StreamExcept(r)
    \/ \E r \in Reqs : StreamFinally(r)
    \/ \E r \in Reqs : StreamFinalWait(r)
    \/ \E p \in Reqs : ProcessExit(p)

MultiSpec == Init /\ [][MultiNext]_vars

\* The same program under fair scheduling: the controller and the script take
\* their steps, pending signals are delivered, sleeping tasks wake up.
\* Nothing is assumed of yt-dlp and ffmpeg (they may stall on the network
\* without output and without exiting) nor of the client.
FairSpec ==
    /\ Init /\ [][Next]_vars
    /\ WF_vars(ControllerStep)
    /\ WF_vars(ScriptStep)
    /\ WF_vars(Signalled)
    /\ WF_vars(Tick)
    /\ WF_vars(ExpireFire)

\* ======================================================================
\* Properties
\* ======================================================================

\* stream_video_content has finished: it returned, was closed, or raised.
Finished == cpc \in {"done", "closed", "raised"}

\* Signals stream_video_content sent to the merge script.
Sent(phase, signal) == \E i \in 1..Len(sigLog) : sigLog[i] = <<phase, signal>>
TermCount == Cardinality({i \in 1..Len(sigLog) : sigLog[i][2] = "TERM"})
KillCount == Cardinality({i \in 1..Len(sigLog) : sigLog[i][2] = "KILL"})

\* ---------------------------------------------------------------- C1
\* C1: once stream_video_content has finished, on whichever path, no process
\* of the request is running: not the merge script, not video-fetch,
\* audio-fetch or the muxer.
C1_NoProcessLeftRunning ==
    Finished => \A p \in Procs : st[p] # "running"

\* ---------------------------------------------------------------- C2
\* C2: on the disconnect path the process is sent at most one terminate over
\* the whole run, a kill is sent only after the 5 s wait timed out with the
\* process still running, and a process that exited in time is never killed.
C2_DisconnectStop ==
    exitPath = "disconnect" =>
        /\ TermCount <= 1
        /\ KillCount <= 1
        /\ KillCount = 1 => /\ "disconnect" \in timedOut
                            /\ sigLog = << <<"disconnect", "TERM">>,
                                           <<"disconnect", "KILL">> >>
        /\ (Finished /\ "disconnect" \notin timedOut) => KillCount = 0
        /\ (Finished /\ rc[Script] = "-15") => KillCount = 0

C2_Witness ==
    /\ Finished /\ exitPath = "disconnect"
    /\ sigLog = << <<"disconnect", "TERM">>, <<"disconnect", "KILL">> >>
    /\ rc[Script] = "-9"

\* ---------------------------------------------------------------- C3
\* C3: output read to its end and exit code 0: the generator ends normally,
\* having sent neither terminate nor kill, and raises nothing.
C3_CleanEndNoSignals ==
    (exitPath = "eof" /\ rc[Script] = "0") =>
        /\ sigLog = <<>>
        /\ raised = "none"
        /\ cpc \in {"wait", "finally", "done"}

C3_Witness ==
    /\ cpc = "done" /\ exitPath = "eof" /\ rc[Script] = "0"
    /\ response = Stream(MaxBytes)

\* ---------------------------------------------------------------- C4
\* C4: the response is at every moment a prefix of what the muxer produced,
\* in order; everything read is forwarded exactly once, by the relay loop and
\* by stream_video_content; on the end-of-output path the response is all
\* that was read, and all the muxer produced when the relay met no error.
C4_OrderedDelivery ==
    /\ IsPrefix(response, Stream(produced))
    /\ response \o (IF cpc = "yield" THEN chunk ELSE <<>>) = ctlRead
    /\ ~relayError => relayWritten \o relayBuf = relayRead
    /\ IsPrefix(ctlRead \o scriptOut, relayWritten)
    /\ (st[Script] = "running" /\ ffStdoutOpen)
          => relayRead \o ffOut = Stream(produced)
    /\ (Finished /\ exitPath = "eof") =>
          /\ response = ctlRead
          /\ response = relayWritten
          /\ (~relayError /\ st[Ffmpeg] # "none") => response = Stream(produced)

C4_Witness ==
    /\ cpc = "done" /\ exitPath = "eof"
    /\ Len(response) = MaxBytes
    /\ Len(relayRead) = MaxBytes

\* ---------------------------------------------------------------- C5
\* C5: the script launches video-fetch, audio-fetch, muxer in that order; the
\* muxer is started only when both fetch processes have been started and
\* their stdout pipes exist.
C5_SpawnOrder ==
    /\ IsPrefix(spawnOrder, <<Video, Audio, Ffmpeg>>)
    /\ st[Audio] # "none" => st[Video] # "none"
    /\ st[Ffmpeg] # "none" =>
          /\ st[Video] # "none" /\ st[Audio] # "none"
          /\ ffmpegFds = {Video, Audio}

C5_Witness == spawnOrder = <<Video, Audio, Ffmpeg>> /\ st[Ffmpeg] = "running"

\* ---------------------------------------------------------------- C6
\* C6: with the muxer started, the script has closed its copies of both
\* fetch descriptors before its first read of muxer output and holds neither
\* during the streaming phase.
C6_FdsClosedBeforeStreaming ==
    /\ spc \in {"relay_read", "relay_write", "relay_except", "relay_close"}
          => (parentFds = {} /\ ffmpegFds = {Video, Audio})
    /\ fdsAtFirstRead \in {{"unset"}, {}}

C6_Witness == fdsAtFirstRead = {} /\ spc = "relay_write" /\ relayBuf # <<>>

\* ---------------------------------------------------------------- C7
\* C7: when a launch fails in the script, every process already started and
\* still running is killed, the script writes no media byte and it ends with
\* a non-zero exit status.
C7_SpawnFailureInScript ==
    spawnFailed \in Children =>
        /\ relayWritten = <<>> /\ scriptOut = <<>>
        /\ sysExit => \A p \in Children : st[p] = "running" => sig[p] = "KILL"
        /\ sysExit => \A p \in scriptKills : p \in Children /\ st[p] # "none"
        /\ spc = "exited" =>
              /\ rc[Script] = "1"
              /\ sysExit
              /\ \A p \in Children : st[p] # "running"
              /\ \A p \in scriptKills : rc[p] = "-9"

C7_Witness ==
    /\ spc = "exited" /\ spawnFailed = Ffmpeg
    /\ scriptKills = {Video, Audio}
    /\ rc[Video] = "-9" /\ rc[Audio] = "-9"

\* ---------------------------------------------------------------- C8
\* C8: a failure to spawn the streaming pipeline reaches the client as a
\* failure response, never as a committed 200 streaming response.
C8_SpawnFailureIsFailureResponse ==
    spawnFailed # "none" => respStatus # "200"

\* ---------------------------------------------------------------- C9
\* C9: an exception raised by the read or the forward: the process is killed
\* exactly when it is still running, it has exited before the generator
\* ends, and the same exception leaves the generator.
C9_ExceptionPath ==
    (Finished /\ exitPath = "exception") =>
        /\ cpc = "raised"
        /\ raised \in Excs /\ raised = pendingExc
        /\ st[Script] = "exited"
        /\ sigLog \in { <<>>, << <<"except", "KILL">> >> }
        /\ sigLog # <<>> <=> rc[Script] = "-9"

C9_Witness ==
    /\ cpc = "raised" /\ exitPath = "exception"
    /\ sigLog = << <<"except", "KILL">> >>
    /\ rc[Script] = "-9"

\* ---------------------------------------------------------------- C10
\* C10: the finally clause runs once on every exit path of the try, the
\* process has exited when it completes, and a process still running on entry
\* is terminated, awaited, and killed when the wait times out.
C10_FinalCleanup ==
    /\ finallyRuns <= 1
    /\ cpc \in {"fin_wait", "fin_reap"} => finallyRuns = 1
    /\ (Finished /\ st[Script] # "none") =>
          /\ finallyRuns = 1
          /\ exitPath \in {"eof", "disconnect", "exception", "closed"}
          /\ st[Script] = "exited"
          /\ Sent("finally", "KILL") <=> "finally" \in timedOut
          /\ Sent("finally", "KILL") => Sent("finally", "TERM")
          /\ Sent("finally", "TERM") => rc[Script] \in {"-15", "-9"}
    /\ cpc = "fin_wait" => Sent("finally", "TERM")

C10_Witness ==
    /\ cpc = "closed"
    /\ sigLog = << <<"finally", "TERM">>, <<"finally", "KILL">> >>
    /\ st[Script] = "exited"

\* ---------------------------------------------------------------- C11
\* C11 (as stated): every wait for a child's exit that carries no timeout is
\* issued only after a forcible kill: in stream_video_content the waits after
\* the disconnect kill, the except kill, the final kill and the wait after
\* the loop; in download_video's cleanup the communicate() that follows
\* kill().
C11_EveryWaitBoundedOrAfterKill ==
    /\ cpc \in {"dc_reap", "exc_reap", "fin_reap", "wait"} => KillCount >= 1
    /\ (st[Script] = "running" /\ spc = "reap") =>
           (sig[clProc] = "KILL" \/ rc[clProc] = "-9")

\* C11 (amended): an unbounded wait is issued only for a process that was
\* sent a kill or has already exited: the waits that follow a kill find the
\* kill delivered or pending, and the wait after the loop, which follows no
\* kill on the end-of-output path, is reached only when the merge script has
\* exited; no wait can therefore block for ever.
C11_UnboundedWaitOnlyOnStoppedProcess ==
    /\ cpc \in {"dc_reap", "exc_reap", "fin_reap"} =>
           /\ KillCount >= 1
           /\ (st[Script] = "exited" \/ sig[Script] = "KILL")
    /\ cpc = "wait" => st[Script] = "exited"
    /\ (st[Script] = "running" /\ spc = "reap") =>
           (sig[clProc] = "KILL" \/ rc[clProc] = "-9")

C11_Witness ==
    /\ cpc = "wait" /\ exitPath = "eof"
    /\ sigLog = <<>>
    /\ st[Script] = "exited"
    /\ \E p \in Children : rc[p] = "-9"

\* ---------------------------------------------------------------- C12
\* C12: in the teardown of download_video the muxer is dealt with before
\* either fetch process, video-fetch before audio-fetch; a process still
\* running when its timeout expires is killed and reaped, so that no process
\* already passed is running and the script ends with all three exited.
C12_TeardownOrder ==
    (st[Script] # "none" /\ spc \in {"cleanup", "reap", "exited"}) =>
        /\ clProc \in {Video, Audio, "end"} => st[Ffmpeg] # "running"
        /\ clProc \in {Audio, "end"} => st[Video] # "running"
        /\ clProc = "end" => st[Audio] # "running"
        /\ spc = "exited" => /\ clProc = "end"
                             /\ \A p \in Children : st[p] # "running"

C12_Witness ==
    /\ spc = "exited" /\ spawnFailed = "none"
    /\ \A p \in Children : st[p] = "exited" /\ rc[p] = "-9"

\* ---------------------------------------------------------------- C13
\* C13: when the process has exited with a non-zero code and the loop was
\* left at end of output or on disconnect, stream_video_content records the
\* error and raises nothing: it ends normally and everything it read stays
\* forwarded.
C13_NonZeroExitOnlyLogged ==
    (exitPath \in {"eof", "disconnect"} /\ rc[Script] \notin {"None", "0"}
        /\ cpc \in {"finally", "fin_wait", "fin_reap", "done", "closed", "raised"}) =>
        /\ errorLogged
        /\ pendingExc = "none" /\ raised = "none"
        /\ cpc \in {"finally", "done"}
        /\ response = ctlRead

C13_Witness ==
    /\ cpc = "done" /\ exitPath = "eof" /\ rc[Script] = "1"
    /\ errorLogged
    /\ Len(response) >= 1

\* ---------------------------------------------------------------- C14
\* C14: a read is entered only from the disconnect check, and only when the
\* check found the client connected; once the check has detected a
\* disconnect nothing more is read from the process or forwarded.
C14_CheckBeforeRead ==
    [][ /\ (cpc' = "read" /\ cpc # "read") => (cpc = "check" /\ ~disconnected)
        /\ exitPath = "disconnect" =>
              /\ ctlRead' = ctlRead
              /\ response' = response
              /\ cpc' \notin {"read", "yield"} ]_vars

C14_Witness ==
    /\ Finished /\ exitPath = "disconnect"
    /\ Len(response) >= 1
    /\ scriptOut # <<>>

\* ---------------------------------------------------------------- C15
\* C15: under fair scheduling, a client disconnect while the merge script
\* runs is eventually followed by the end of the merge script, whether or not
\* it is producing output.
C15_DisconnectLeadsToTermination ==
    (disconnected /\ st[Script] = "running") ~> (st[Script] = "exited")

\* ---------------------------------------------------------------- C18
\* C18: while the stream of the request is in progress (the generator is in
\* its read loop) the action-log entry of the request is still there.
C18_EntryKeptWhileStreaming ==
    cpc \in {"check", "read", "yield", "suspended"} => actionLog[reqId] # Absent

\* ---------------------------------------------------------------- C19
\* C19: a metadata fetch that exits non-zero gives HTTP 400 whose detail ends
\* with the decoded, stripped stderr text (the stderr itself when it is valid
\* UTF-8 without surrounding blanks); output that is not JSON or not UTF-8
\* gives 500; any other exception gives 500; an HTTPException of the metadata
\* fetch leaves download_video unchanged.
C19_PreStreamErrors ==
    /\ httpError.status \in {"none", "400", "500"}
    /\ infoOut.code = "1" =>
          /\ cpc = "error"
          /\ httpError.status = "400" /\ respStatus = "400"
          /\ Tail(httpError.detail) = Strip(DecodeStderr(infoOut.stderr))
          /\ (\A i \in DOMAIN infoOut.stderr : infoOut.stderr[i] = "E")
                => Tail(httpError.detail) = infoOut.stderr
    /\ (infoOut.code = "0" /\ infoOut.stdout \in {"malformed", "nonutf8"}) =>
          /\ cpc = "error"
          /\ httpError.status = "500" /\ respStatus = "500"
    /\ infoOut.code = "raise" =>
          /\ cpc = "error"
          /\ httpError.status = "500" /\ respStatus = "500"
    /\ (infoOut # NoInfo /\ GetVideoInfoRaises(infoOut).status \in {"400", "500"}) =>
          httpError = GetVideoInfoRaises(infoOut)
    /\ infoOut = InfoOk => httpError = NoHttpError

C19_Witness ==
    /\ cpc = "error"
    /\ infoOut.code = "1" /\ infoOut.stderr = <<" ", "E">>
    /\ httpError = HttpException("400", <<"Failed to get video info: ", "E">>)

C16_LogOperations ==
    /\ [](\A id \in LogIds : actionLog[id] \in {Absent, lastSet[id]})
    /\ [](~expiryError)
    /\ [][lastQuery' # lastQuery =>
            /\ lastQuery'.code = "404" <=> actionLog[lastQuery'.id] = Absent
            /\ lastQuery'.code = "200" <=>
                  /\ actionLog[lastQuery'.id] # Absent
                  /\ lastQuery'.action = lastSet[lastQuery'.id]]_vars
    /\ [][\A t \in timers :
            (t.left = 0 /\ t \notin timers') => actionLog'[t.id] = Absent]_vars

\* Two requests used the same id; both deletion tasks have run, the second
\* on an absent id; the id was queried after that.
C16_Witness ==
    /\ \A r \in Reqs : rpc[r] = "expired" /\ rid[r] = "a"
    /\ timers = {}
    /\ actionLog["a"] = Absent /\ lastSet["a"] = StartingStatus
    /\ lastQuery = [id |-> "a", code |-> "404", action |-> "-"]
    /\ ~expiryError

\* ---------------------------------------------------------------- C17
\* C17: as long as the 2 s of a deletion task have not elapsed, the entry of
\* the id it was scheduled for is in the log, so that the log endpoint finds
\* it.
C17_RetrievableUntilDelayElapsed ==
    \A t \in timers : t.left > 0 => actionLog[t.id] # Absent

\* ---------------------------------------------------------------- C21
\* The characters the specification calls filesystem-unsafe.
C21_Unsafe == {"/", "\\", ":", "*", "?", "\"", "<", ">", "|", "'"}

\* C21: once the file name is built, the sanitized title holds none of the
\* unsafe characters; it is the title with each unsafe character replaced by
\* one underscore, position by position, and with surrounding blanks
\* removed; My/Video:"Test" gives My_Video__Test_ and the file name adds
\* ".mkv".
C21_Sanitized ==
    cpc \in {"handler", "spawn"} =>
        /\ \A i \in DOMAIN safeTitle : safeTitle[i] \notin C21_Unsafe
        /\ safeTitle =
              Strip([i \in DOMAIN MetadataTitle(title) |->
                        IF MetadataTitle(title)[i] \in C21_Unsafe
                        THEN "_" ELSE MetadataTitle(title)[i]])
        /\ (title # <<>> /\ Head(title) # " " /\ title[Len(title)] # " ")
              => Len(safeTitle) = Len(MetadataTitle(title))
        /\ title = ExampleTitle =>
              /\ safeTitle = <<"M", "y", "_", "V", "i", "d", "e", "o", "_", "_",
                               "T", "e", "s", "t", "_">>
              /\ fileName = safeTitle \o <<".", "mkv">>

C21_Witness ==
    /\ cpc = "handler"
    /\ title = ExampleTitle
    /\ safeTitle = <<"M", "y", "_", "V", "i", "d", "e", "o", "_", "_",
                     "T", "e", "s", "t", "_">>

\* ---------------------------------------------------------------- C22
\* C22: a request whose url is empty or has no http:// or https:// scheme is
\* answered with 400: it never gets a 200 streaming response and the
\* pipeline process is never launched for it.
C22_BadUrlRejected ==
    ~StartsWithHttp(reqUrl) =>
        /\ respStatus # "200"
        /\ st[Script] = "none"

\* ---------------------------------------------------------------- C27
\* C27: every option on the command line of the merge script is one its
\* parser declares, so that for a request with a valid url the script is not
\* ended by its argument parsing, whatever the cookie configuration.
C27_CommandLineAccepted ==
    st[Script] # "none" =>
        /\ \A i \in DOMAIN Command : Command[i] \in ParserOptions
        /\ StartsWithHttp(reqUrl) => spc # "rejected"

\* ---------------------------------------------------------------- C24
\* C24: when the request has ended, in an error response or with the end of
\* its stream, an entry still in the log for its id has a deletion task
\* pending, so that it is removed in the end.
C24_EntryRemovalPending ==
    (cpc \in {"error", "raised", "done", "closed"} /\ actionLog[reqId] # Absent)
        => \E t \in timers : t.id = reqId

\* ---------------------------------------------------------------- C25
\* C25: a status that request q wrote last for its id stays in the log while
\* q has not yet scheduled its own deletion task, or has scheduled it and its
\* delay has not elapsed: the task of no other request removes it.
C25_ExpiryRemovesOwnEntryOnly ==
    \A q \in Reqs :
        ( /\ \/ rpc[q] \in {"info", "starting"}
             \/ /\ rpc[q] = "streaming"
                /\ \E t \in timers : t.owner = q /\ t.left > 0
          /\ lastWriter[rid[q]] = q )
        => actionLog[rid[q]] # Absent

\* ---------------------------------------------------------------- C26
\* C26: the merge script has ended with status 0 only if all three processes
\* were started and exited with code 0, no write of the relay loop raised and
\* everything read from the muxer was written to the script's output.
C26_SuccessMeansAllRelayed ==
    (spc = "exited" /\ rc[Script] = "0") =>
        /\ \A p \in Children : st[p] # "none" /\ rc[p] = "0"
        /\ ~relayError
        /\ relayWritten = relayRead

\* ---------------------------------------------------------------- C28
\* The Content-Type that belongs to a container.
C28_ContentTypeOf(container) ==
    CASE container = "mkv" -> "video/x-matroska"
      [] container = "webm" -> "video/webm"
      [] OTHER -> "none"

\* C28: once the muxer is started, the container given to it with -f is the
\* container of the file name extension of the response, and the
\* Content-Type of the response is the one of that container.
C28_MuxerFormatMatchesResponse ==
    ffmpegFormat # "none" =>
        /\ ffmpegFormat = outputExt
        /\ mediaType = C28_ContentTypeOf(ffmpegFormat)

\* ---------------------------------------------------------------- C23
\* C23: with several requests streaming at once, every terminate and kill a
\* generator sends goes to the process that generator created, and every
\* chunk it reads comes from that process.
C23_ProcessOwnedByItsRequest ==
    \A r \in Reqs :
        /\ msent[r] \in {0, r}
        /\ mgot[r] \in {0, r}
        /\ process[r] \in {0, r}

C23_Witness ==
    /\ mpc[1] = "done" /\ mdisc[1]
    /\ msent[1] = 1 /\ pst[1] = "exited"
    /\ pst[2] = "running" /\ mpc[2] = "read"
    /\ mgot[2] = 2 /\ msent[2] = 0

====
